---- MODULE Spec2Model ----
(***************************************************************************)
(* Model of src/disposition_checker.py: the batch pipeline run by main()   *)
(*   rows.sort -> compute_metrics -> flag_unusual -> check_disposition     *)
(* and its three functions taken on their own.                             *)
(*                                                                         *)
(* Numbers.  The program computes on IEEE doubles.  The model computes the *)
(* same expressions exactly: raw fields are integers and every derived     *)
(* ratio is a fraction [n, d] with d > 0, so a comparison `x > 9` is the   *)
(* exact comparison of the real-valued expression.  Rounding of doubles is *)
(* not modelled.  A division by zero raises ZeroDivisionError, as Python's *)
(* float division does.                                                    *)
(*                                                                         *)
(* Dates are datetime values in the program; the model uses day ordinals.  *)
(* Sequences are 1-based in TLA+; PyIndex and PySlice give Python's        *)
(* 0-based indexing and slicing, negative indices included.                *)
(***************************************************************************)
EXTENDS Integers, Sequences, FiniteSets, TLC

VARIABLES
    pc,               \* position in main(): "sort", "compute", "flag", "check", "emit", "done", "failed"
    rows,             \* main's list `rows` (the dicts are mutated in place by compute_metrics)
    err,              \* the exception that ended the run, or "none"
    flags,            \* result of flag_unusual
    dates,            \* main's list `dates`
    disposition_days, \* result of check_disposition
    stdout,           \* the dates printed by main, in order
    supplied,         \* history: rows as parsed from the file, before rows.sort
    given,            \* history: rows as they were when compute_metrics was last called
    runs              \* history: the outcome of every completed pipeline run over `rows`

vars == <<pc, rows, err, flags, dates, disposition_days, stdout, supplied, given, runs>>

\* ------------------------------------------------------------------ bounds

MaxRows == 3       \* records per input file in the pipeline specification
MaxFlagRows == 2   \* rows handed to flag_unusual on its own
MaxLen == 10       \* flag sequences of every length up to MaxLen, exhaustively
MaxBlocks == 4     \* long flag sequences: MaxBlocks blocks of ten days each

\* ------------------------------------------------------------- Python helpers

PyMax(a, b) == IF a >= b THEN a ELSE b

PyMin(a, b) == IF a <= b THEN a ELSE b

\* seq[i] with Python's index rule: a negative index counts from the end.
PyIndex(seq, i) == IF i < 0 THEN seq[Len(seq) + i + 1] ELSE seq[i + 1]

\* Python's clamping of one slice bound to 0..len.
PyClamp(seq, a) == IF a < 0 THEN PyMax(0, Len(seq) + a) ELSE PyMin(a, Len(seq))

\* seq[a:b]
PySlice(seq, a, b) == SubSeq(seq, PyClamp(seq, a) + 1, PyClamp(seq, b))

\* sum() of a list of booleans: True counts 1, False counts 0.
RECURSIVE SumUpTo(_, _)
SumUpTo(seq, k) ==
    IF k = 0 THEN 0
    ELSE SumUpTo(seq, k - 1) + (IF seq[k] THEN 1 ELSE 0)

PySum(seq) == SumUpTo(seq, Len(seq))

\* ------------------------------------------------------------- exact ratios

\* The quotient num / den (den # 0), kept with a positive denominator.
Rat(num, den) == IF den < 0 THEN [n |-> -num, d |-> -den] ELSE [n |-> num, d |-> den]

RatInt(k) == [n |-> k, d |-> 1]

RatSub(x, y) == [n |-> x.n * y.d - y.n * x.d, d |-> x.d * y.d]

\* x > k for an integer k
RatGT(x, k) == x.n > k * x.d

RatEq(x, y) == x.n * y.d = y.n * x.d

\* A key that the dict does not hold.
Missing == [n |-> 0, d |-> 0]

\* -------------------------------------------------------------- the records

RawKeys == {"date", "open", "high", "low", "close", "volume", "idx_open",
            "idx_high", "idx_low", "idx_close", "outstanding"}

MetricKeys == {"amplitude", "amplitude_diff", "price_change", "price_diff", "turnover"}

\* parse_row's dict: the eleven raw keys; the five metric keys are not there yet.
parse_row(date, open, high, low, close, volume, idx_open, idx_high, idx_low, idx_close, outstanding) ==
    [date |-> date, open |-> open, high |-> high, low |-> low, close |-> close,
     volume |-> volume, idx_open |-> idx_open, idx_high |-> idx_high,
     idx_low |-> idx_low, idx_close |-> idx_close, outstanding |-> outstanding,
     amplitude |-> Missing, amplitude_diff |-> Missing, price_change |-> Missing,
     price_diff |-> Missing, turnover |-> Missing]

Raw(row) == [k \in RawKeys |-> row[k]]

Enriched(row) == \A k \in MetricKeys : row[k] # Missing

\* --------------------------------------------------------- compute_metrics

\* One pass of the loop body for `row`; prev is <<>> for prev_close = None,
\* else <<prev_close, prev_idx_close>>.  The divisions are taken in the code's
\* order; the first zero divisor raises and row.update is not reached.
RowRaises(row, prev) ==
    \/ row.low = 0
    \/ row.idx_low = 0
    \/ prev # <<>> /\ (prev[1] = 0 \/ prev[2] = 0)
    \/ row.outstanding = 0

\* Variant of PriceChange: the first record is measured against its own open.
PriceChangeFromOpen(row, prev) ==
    IF prev = <<>> THEN Rat((row.close - row.open) * 100, row.open)
    ELSE Rat((row.close - prev[1]) * 100, prev[1])

\* price_change of `row`
PriceChange(row, prev) ==
    IF prev = <<>> THEN RatInt(0)
    ELSE Rat((row.close - prev[1]) * 100, prev[1])

\* idx_price_change of `row`
IdxPriceChange(row, prev) ==
    IF prev = <<>> THEN RatInt(0)
    ELSE Rat((row.idx_close - prev[2]) * 100, prev[2])

\* Variant of RowUpdate: the turnover numerator is also stored back as the volume.
RowUpdateRescales(row, m) ==
    [row EXCEPT !.amplitude = m.amplitude,
                !.amplitude_diff = m.amplitude_diff,
                !.price_change = m.price_change,
                !.price_diff = m.price_diff,
                !.turnover = m.turnover,
                !.volume = row.volume * 100]

\* row.update({...}): the five metric keys are set on the dict itself.
RowUpdate(row, m) ==
    [row EXCEPT !.amplitude = m.amplitude,
                !.amplitude_diff = m.amplitude_diff,
                !.price_change = m.price_change,
                !.price_diff = m.price_diff,
                !.turnover = m.turnover]

UpdateRow(row, prev) ==
    LET amplitude == Rat((row.high - row.low) * 100, row.low)
        idx_amplitude == Rat((row.idx_high - row.idx_low) * 100, row.idx_low)
        amplitude_diff == RatSub(amplitude, idx_amplitude)
        price_change == PriceChange(row, prev)
        idx_price_change == IdxPriceChange(row, prev)
        price_diff == RatSub(price_change, idx_price_change)
        turnover == Rat(row.volume * 100, row.outstanding)
    IN  RowUpdate(row, [amplitude |-> amplitude,
                        amplitude_diff |-> amplitude_diff,
                        price_change |-> price_change,
                        price_diff |-> price_diff,
                        turnover |-> turnover])

\* The loop from position k (1-based) on: the list with the rows so far updated
\* in place, and the exception raised, if any.
RECURSIVE MetricsLoop(_, _, _)
MetricsLoop(rs, k, prev) ==
    IF k > Len(rs) THEN [rows |-> rs, err |-> "none"]
    ELSE IF RowRaises(rs[k], prev) THEN [rows |-> rs, err |-> "ZeroDivisionError"]
    ELSE MetricsLoop([rs EXCEPT ![k] = UpdateRow(rs[k], prev)], k + 1,
                     <<rs[k].close, rs[k].idx_close>>)

\* Variant of compute_metrics: prev_close and prev_idx_close outlive the call, so
\* a call over rows an earlier call went through starts from that call's last row.
compute_metrics_stale(rs) ==
    MetricsLoop(rs, 1,
                IF rs # <<>> /\ Enriched(rs[Len(rs)])
                THEN <<rs[Len(rs)].close, rs[Len(rs)].idx_close>>
                ELSE <<>>)

compute_metrics(rs) == MetricsLoop(rs, 1, <<>>)

\* ------------------------------------------------------------ flag_unusual

RatGE(x, k) == x.n >= k * x.d

\* Variant of Flagged: the amplitude threshold is inclusive.
FlaggedInclusive(row) ==
    LET cond1 == RatGE(row.amplitude, 9) /\ RatGT(row.amplitude_diff, 5) /\ row.volume >= 3000
        cond2 == RatGT(row.price_change, 6) /\ RatGT(row.price_diff, 4) /\ row.volume >= 3000
        cond3 == RatGT(row.turnover, 10) /\ row.volume >= 3000
    IN  cond1 \/ cond2 \/ cond3

\* The loop body of flag_unusual: `flagged` for one row.
Flagged(row) ==
    LET cond1 == RatGT(row.amplitude, 9) /\ RatGT(row.amplitude_diff, 5) /\ row.volume >= 3000
        cond2 == RatGT(row.price_change, 6) /\ RatGT(row.price_diff, 4) /\ row.volume >= 3000
        cond3 == RatGT(row.turnover, 10) /\ row.volume >= 3000
    IN  cond1 \/ cond2 \/ cond3

flag_unusual(rs) == [k \in 1..Len(rs) |-> Flagged(rs[k])]

\* -------------------------------------------------------- check_disposition

\* The two window counts of the loop body.
Last10(fs, i) == PySum(PySlice(fs, PyMax(0, i - 9), i + 1))

Last30(fs, i) == PySum(PySlice(fs, PyMax(0, i - 29), i + 1))

\* Variant of DayStep: the six-of-ten test is `last10 > 6`.
DayStepStrictB(ds, fs, i) ==
    IF i >= 2 /\ PyIndex(fs, i) /\ PyIndex(fs, i - 1) /\ PyIndex(fs, i - 2)
    THEN <<PyIndex(ds, i)>>
    ELSE IF Last10(fs, i) > 6 THEN <<PyIndex(ds, i)>>
    ELSE IF Last30(fs, i) >= 12 THEN <<PyIndex(ds, i)>>
    ELSE <<>>

\* Variant of DayStep: the six-of-ten test is `last10 == 6`.
DayStepExactB(ds, fs, i) ==
    IF i >= 2 /\ PyIndex(fs, i) /\ PyIndex(fs, i - 1) /\ PyIndex(fs, i - 2)
    THEN <<PyIndex(ds, i)>>
    ELSE IF Last10(fs, i) = 6 THEN <<PyIndex(ds, i)>>
    ELSE IF Last30(fs, i) >= 12 THEN <<PyIndex(ds, i)>>
    ELSE <<>>

\* Variant of DayStep: the three `continue` statements are missing.
DayStepNoContinue(ds, fs, i) ==
    (IF i >= 2 /\ PyIndex(fs, i) /\ PyIndex(fs, i - 1) /\ PyIndex(fs, i - 2)
     THEN <<PyIndex(ds, i)>> ELSE <<>>)
    \o (IF Last10(fs, i) >= 6 THEN <<PyIndex(ds, i)>> ELSE <<>>)
    \o (IF Last30(fs, i) >= 12 THEN <<PyIndex(ds, i)>> ELSE <<>>)

\* Variant of DayStep: the window counts are taken as shares of the days the
\* clamped window holds (6 in 10 as 60%, 12 in 30 as 40%).
DayStepProportional(ds, fs, i) ==
    IF i >= 2 /\ PyIndex(fs, i) /\ PyIndex(fs, i - 1) /\ PyIndex(fs, i - 2)
    THEN <<PyIndex(ds, i)>>
    ELSE IF Last10(fs, i) * 10 >= 6 * (i + 1 - PyMax(0, i - 9)) THEN <<PyIndex(ds, i)>>
    ELSE IF Last30(fs, i) * 30 >= 12 * (i + 1 - PyMax(0, i - 29)) THEN <<PyIndex(ds, i)>>
    ELSE <<>>

\* The loop body for index i (0-based): what the pass appends to
\* disposition_days, <<dates[i]>> or nothing.
DayStep(ds, fs, i) ==
    IF i >= 2 /\ PyIndex(fs, i) /\ PyIndex(fs, i - 1) /\ PyIndex(fs, i - 2)
    THEN <<PyIndex(ds, i)>>
    ELSE LET start10 == PyMax(0, i - 9)
             last10 == PySum(PySlice(fs, start10, i + 1))
         IN  IF last10 >= 6
             THEN <<PyIndex(ds, i)>>
             ELSE LET start30 == PyMax(0, i - 29)
                      last30 == PySum(PySlice(fs, start30, i + 1))
                  IN  IF last30 >= 12
                      THEN <<PyIndex(ds, i)>>
                      ELSE <<>>

\* for i in range(n), from i on: the dates appended, in order.
RECURSIVE DispositionLoop(_, _, _)
DispositionLoop(ds, fs, i) ==
    IF i >= Len(ds) THEN <<>>
    ELSE DayStep(ds, fs, i) \o DispositionLoop(ds, fs, i + 1)

check_disposition(ds, fs) == DispositionLoop(ds, fs, 0)

\* --------------------------------------------------------------- rows.sort

\* Variant of SortByDate: the list is left in the order of the file.
SortSkipped(rs) == rs

\* list.sort(key = date) is stable: a row goes behind the rows whose date is
\* not later than its own.
RECURSIVE InsertByDate(_, _)
InsertByDate(sorted, row) ==
    IF sorted = <<>> THEN <<row>>
    ELSE IF row.date < Head(sorted).date THEN <<row>> \o sorted
    ELSE <<Head(sorted)>> \o InsertByDate(Tail(sorted), row)

RECURSIVE SortFrom(_, _)
SortFrom(rs, sorted) ==
    IF rs = <<>> THEN sorted
    ELSE SortFrom(Tail(rs), InsertByDate(sorted, Head(rs)))

SortByDate(rs) == SortFrom(rs, <<>>)

\* ------------------------------------------------------------------ inputs

\* An ordinary trading day: amplitude 2, index amplitude 1, turnover 0.5.
Quiet == parse_row(0, 100, 102, 100, 100, 5000, 100, 101, 100, 100, 1000000)

\* The days a file is made of.
RawDays ==
    { Quiet,
      [Quiet EXCEPT !.high = 110, !.volume = 3000],         \* amplitude 10: rule 1
      [Quiet EXCEPT !.high = 108, !.close = 108],           \* +8% after a close of 100: rule 2
      [Quiet EXCEPT !.low = 0],
      [Quiet EXCEPT !.low = -100],
      [Quiet EXCEPT !.outstanding = 0],
      [Quiet EXCEPT !.close = 0] }

Perms(n) == { p \in [1..n -> 1..n] : \A a, b \in 1..n : a # b => p[a] # p[b] }

\* The file made of the days `days`, the k-th row dated p[k].
File(days, p) == [k \in 1..Len(days) |-> [days[k] EXCEPT !.date = p[k]]]

\* ---------------------------------------------------------------- main()

Init ==
    /\ pc = "sort"
    \* up to MaxRows rows with pairwise distinct dates, in any order
    /\ \E n \in 0..MaxRows : \E days \in [1..n -> RawDays], p \in Perms(n) :
           rows = File(days, p)
    /\ supplied = rows
    /\ given = <<>>
    /\ err = "none"
    /\ flags = <<>>
    /\ dates = <<>>
    /\ disposition_days = <<>>
    /\ stdout = <<>>
    /\ runs = <<>>

\* The metric values a list of rows carries, row by row.
MetricsOf(rs) ==
    [k \in 1..Len(rs) |-> <<rs[k].amplitude, rs[k].amplitude_diff, rs[k].price_change,
                            rs[k].price_diff, rs[k].turnover>>]

\* What a run ended with.
Outcome(rs, e, fs, days) ==
    [metrics |-> MetricsOf(rs), err |-> e, flags |-> fs, disposition_days |-> days]

\* rows.sort(key=lambda r: r['date'])
Sort ==
    /\ pc = "sort"
    /\ rows' = SortByDate(rows)
    /\ pc' = "compute"
    /\ UNCHANGED <<err, flags, dates, disposition_days, stdout, supplied, given, runs>>

\* compute_metrics(rows); an exception leaves main
ComputeMetrics ==
    /\ pc = "compute"
    /\ given' = rows
    /\ LET r == compute_metrics(rows)
       IN  /\ rows' = r.rows
           /\ err' = r.err
           /\ pc' = IF r.err = "none" THEN "flag" ELSE "failed"
           /\ runs' = IF r.err = "none" THEN runs
                      ELSE Append(runs, Outcome(r.rows, r.err, flags, disposition_days))
    /\ UNCHANGED <<flags, dates, disposition_days, stdout, supplied>>

\* flags = flag_unusual(rows); dates = [row['date'] for row in rows]
FlagUnusual ==
    /\ pc = "flag"
    /\ flags' = flag_unusual(rows)
    /\ dates' = [k \in 1..Len(rows) |-> rows[k].date]
    /\ pc' = "check"
    /\ UNCHANGED <<rows, err, disposition_days, stdout, supplied, given, runs>>

\* disposition_days = check_disposition(dates, flags)
CheckDisposition ==
    /\ pc = "check"
    /\ disposition_days' = check_disposition(dates, flags)
    /\ pc' = "emit"
    /\ UNCHANGED <<rows, err, flags, dates, stdout, supplied, given, runs>>

\* for d in disposition_days: print(...)
Emit ==
    /\ pc = "emit"
    /\ stdout' = stdout \o disposition_days
    /\ runs' = Append(runs, Outcome(rows, err, flags, disposition_days))
    /\ pc' = "done"
    /\ UNCHANGED <<rows, err, flags, dates, disposition_days, supplied, given>>

\* The pipeline is run a second time over the same, by now enriched, rows.
Rerun ==
    /\ pc \in {"done", "failed"}
    /\ Len(runs) < 2
    /\ pc' = "compute"
    /\ err' = "none"
    /\ flags' = <<>>
    /\ dates' = <<>>
    /\ disposition_days' = <<>>
    /\ UNCHANGED <<rows, stdout, supplied, given, runs>>

Next == Sort \/ ComputeMetrics \/ FlagUnusual \/ CheckDisposition \/ Emit \/ Rerun

Spec == Init /\ [][Next]_vars

\* ------------------------------------------------ flag_unusual on its own

\* Metric values at each threshold and just above it, volume just below the
\* floor and at it.
MetricDays ==
    [amplitude : {RatInt(9), Rat(19, 2)},
     amplitude_diff : {RatInt(5), Rat(11, 2)},
     price_change : {RatInt(6), Rat(13, 2)},
     price_diff : {RatInt(4), Rat(9, 2)},
     turnover : {RatInt(10), Rat(21, 2)},
     volume : {2999, 3000}]

\* The row of day k carrying the metrics m.
MetricRow(k, m) ==
    [RowUpdate(Quiet, m) EXCEPT !.date = k, !.volume = m.volume]

InitFlag ==
    /\ pc = "flag"
    /\ \E n \in 1..MaxFlagRows : \E ms \in [1..n -> MetricDays] :
           rows = [k \in 1..n |-> MetricRow(k, ms[k])]
    /\ supplied = rows
    /\ given = rows
    /\ err = "none"
    /\ flags = <<>>
    /\ dates = <<>>
    /\ disposition_days = <<>>
    /\ stdout = <<>>
    /\ runs = <<>>

SpecFlag == InitFlag /\ [][FlagUnusual]_vars

\* --------------------------------------------- check_disposition on its own

\* Ten-day blocks, each contained in the next: no flagged day; five flagged
\* days with no three in a row; every day flagged.
Blocks ==
    { <<FALSE, FALSE, FALSE, FALSE, FALSE, FALSE, FALSE, FALSE, FALSE, FALSE>>,
      <<TRUE, TRUE, FALSE, TRUE, TRUE, FALSE, TRUE, FALSE, FALSE, FALSE>>,
      <<TRUE, TRUE, TRUE, TRUE, TRUE, TRUE, TRUE, TRUE, TRUE, TRUE>> }

RECURSIVE Concat(_)
Concat(bs) == IF bs = <<>> THEN <<>> ELSE Head(bs) \o Concat(Tail(bs))

DateStrides == {1, 3}

\* Every flag sequence of up to MaxLen days, and the sequences of MaxBlocks
\* blocks; the dates ascend by one day or by three.
InitDisp ==
    /\ pc = "check"
    /\ \/ \E n \in 0..MaxLen : flags \in [1..n -> BOOLEAN]
       \/ \E bs \in [1..MaxBlocks -> Blocks] : flags = Concat(bs)
    /\ \E stride \in DateStrides : dates = [k \in 1..Len(flags) |-> k * stride]
    /\ rows = <<>>
    /\ supplied = <<>>
    /\ given = <<>>
    /\ err = "none"
    /\ disposition_days = <<>>
    /\ stdout = <<>>
    /\ runs = <<>>

SpecDisp == InitDisp /\ [][CheckDisposition]_vars

\* ================================================================ claims

AfterCompute == pc \in {"flag", "check", "emit", "done", "failed"}

AfterFlag == pc \in {"check", "emit", "done"}

AfterCheck == pc \in {"emit", "done"}

\* The three rules as stated, on 0-based day indices.
RuleA(fs, i) == i >= 2 /\ fs[i + 1] /\ fs[i] /\ fs[i - 1]

TrueDays(fs, lo, hi) == Cardinality({ j \in lo..hi : fs[j + 1] })

RuleB(fs, i) == TrueDays(fs, PyMax(0, i - 9), i) >= 6

RuleC(fs, i) == TrueDays(fs, PyMax(0, i - 29), i) >= 12

Emitted(days, d) == \E k \in 1..Len(days) : days[k] = d

StrictlyAscending(seq) == \A k, l \in 1..Len(seq) : k < l => seq[k] < seq[l]

\* ---- C1
\* C1: check_disposition emits dates[i] if and only if Rule A, Rule B or Rule C
\* holds at i.
C1_EmittedIffRule ==
    AfterCheck =>
        \A i \in 0..(Len(dates) - 1) :
            Emitted(disposition_days, dates[i + 1])
                <=> (RuleA(flags, i) \/ RuleB(flags, i) \/ RuleC(flags, i))

\* A day past index 29 that only Rule C emits, its thirty-day window holding
\* fewer flagged days than the whole sequence, beside a day that is not emitted.
C1_Witness ==
    /\ AfterCheck
    /\ \E i \in 30..(Len(dates) - 1) :
          /\ RuleC(flags, i) /\ ~RuleA(flags, i) /\ ~RuleB(flags, i)
          /\ TrueDays(flags, 0, i) > TrueDays(flags, i - 29, i)
          /\ Emitted(disposition_days, dates[i + 1])
    /\ \E j \in 30..(Len(dates) - 1) :
          /\ TrueDays(flags, 0, j) >= 12
          /\ ~Emitted(disposition_days, dates[j + 1])

\* ---- C2
\* C2: for strictly ascending dates the output is strictly increasing and every
\* element of it is an input date, so it is a subsequence of the input without
\* a repeated date, also on a day that satisfies several rules.
C2_StrictlyIncreasingSubsequence ==
    (AfterCheck /\ StrictlyAscending(dates)) =>
        /\ StrictlyAscending(disposition_days)
        /\ \A k \in 1..Len(disposition_days) : Emitted(dates, disposition_days[k])

\* A day on which all three rules hold is in the output exactly once.
C2_Witness ==
    /\ AfterCheck
    /\ StrictlyAscending(dates)
    /\ \E i \in 0..(Len(dates) - 1) :
          /\ RuleA(flags, i) /\ RuleB(flags, i) /\ RuleC(flags, i)
          /\ Cardinality({ k \in 1..Len(disposition_days) :
                             disposition_days[k] = dates[i + 1] }) = 1
    /\ Len(disposition_days) < Len(dates)

\* ---- C3
Exceeds(x, k) == ~(x.n <= k * x.d)

Unusual(row) ==
    \/ Exceeds(row.amplitude, 9) /\ Exceeds(row.amplitude_diff, 5) /\ ~(row.volume < 3000)
    \/ Exceeds(row.price_change, 6) /\ Exceeds(row.price_diff, 4) /\ ~(row.volume < 3000)
    \/ Exceeds(row.turnover, 10) /\ ~(row.volume < 3000)

\* C3: flag_unusual returns one boolean per row, in order, and the entry of a
\* row is true exactly when that row's own metrics satisfy one of the three
\* conditions, the ratio thresholds strict and the volume floor inclusive.
C3_FlagPerDay ==
    AfterFlag =>
        /\ Len(flags) = Len(rows)
        /\ \A k \in 1..Len(rows) : flags[k] = Unusual(rows[k])

\* Two rows: one at volume 3000 with amplitude exactly 9, price_diff exactly 4
\* and turnover exactly 10 is not flagged; its neighbour at volume 3000 with
\* turnover above 10 is.
C3_Witness ==
    /\ pc = "check"
    /\ Len(rows) = 2
    /\ rows[1].volume = 3000
    /\ RatEq(rows[1].amplitude, RatInt(9)) /\ RatGT(rows[1].amplitude_diff, 5)
    /\ RatGT(rows[1].price_change, 6) /\ RatEq(rows[1].price_diff, RatInt(4))
    /\ RatEq(rows[1].turnover, RatInt(10))
    /\ flags[1] = FALSE
    /\ rows[2].volume = 3000 /\ RatGT(rows[2].turnover, 10)
    /\ flags[2] = TRUE

\* ---- C4
NonPositiveDivisor(rs, k) ==
    \/ rs[k].low <= 0
    \/ rs[k].idx_low <= 0
    \/ rs[k].outstanding <= 0
    \/ k > 1 /\ (rs[k - 1].close = 0 \/ rs[k - 1].idx_close = 0)

\* C4: whenever a record has a non-positive low, index low or outstanding
\* share count, or follows a record whose close or index close is zero,
\* compute_metrics ends in an error and that record gets no metric value.
C4_NonPositiveDivisorRaises ==
    AfterCompute =>
        \A k \in 1..Len(rows) :
            NonPositiveDivisor(rows, k) => (err # "none" /\ ~Enriched(rows[k]))

\* ---- C5
\* The dates of the days on which Rule A holds, in order.
RuleADates(ds, fs) ==
    LET idx == SelectSeq([k \in 1..Len(ds) |-> k - 1], LAMBDA i : RuleA(fs, i))
    IN  [k \in 1..Len(idx) |-> ds[idx[k] + 1]]

\* C5: on a sequence of at most five days neither window count reaches its
\* threshold, and the output is exactly the dates of the days i >= 2 whose
\* flag and the two flags before it are all true.
C5_ShortSequencesOnlyRuleA ==
    (AfterCheck /\ Len(flags) <= 5) =>
        /\ \A i \in 0..(Len(flags) - 1) : Last10(flags, i) < 6 /\ Last30(flags, i) < 12
        /\ disposition_days = RuleADates(dates, flags)

\* Five days, all flagged: the output is the dates at indices 2, 3 and 4.
C5_Witness ==
    /\ AfterCheck
    /\ Len(flags) = 5
    /\ \A k \in 1..5 : flags[k]
    /\ disposition_days = <<dates[3], dates[4], dates[5]>>

\* ---- C6
IsZero(x) == x.n = 0 /\ x.d > 0

\* C6: the first record gets price_change 0 and price_diff 0 whatever its close
\* and index close are (it is enriched exactly when its own low, index low and
\* outstanding are not zero); a later record's price_change is computed from
\* the close of the record right before it in the list.
C6_FirstRecordZeroChange ==
    (AfterCompute /\ Len(rows) > 0) =>
        /\ Enriched(rows[1]) <=>
               (rows[1].low # 0 /\ rows[1].idx_low # 0 /\ rows[1].outstanding # 0)
        /\ Enriched(rows[1]) =>
               (IsZero(rows[1].price_change) /\ IsZero(rows[1].price_diff))
        /\ \A k \in 2..Len(rows) :
               Enriched(rows[k]) =>
                   rows[k].price_change.n * rows[k - 1].close
                       = (rows[k].close - rows[k - 1].close) * 100 * rows[k].price_change.d

\* The first record closes at 108 after an open of 100 and still has
\* price_change 0; the second has a price change that is not 0.
C6_Witness ==
    /\ pc = "flag"
    /\ Len(rows) >= 2
    /\ rows[1].close = 108
    /\ IsZero(rows[1].price_change) /\ IsZero(rows[1].price_diff)
    /\ Enriched(rows[2]) /\ rows[2].price_change.n # 0

C8_RerunSameOutcome ==
    \A a, b \in 1..Len(runs) : runs[a] = runs[b]

\* Two completed runs over rows with a price change, a flagged day and a
\* disposition date.
C8_Witness ==
    /\ pc = "done"
    /\ Len(runs) >= 2
    /\ disposition_days # <<>>
    /\ \E k \in 1..Len(rows) : rows[k].price_change.n # 0

\* ---- C9
\* The rows of the set S in ascending date order.
RECURSIVE Ascending(_)
Ascending(S) ==
    IF S = {} THEN <<>>
    ELSE LET first == CHOOSE r \in S : \A q \in S : r.date <= q.date
         IN  <<first>> \o Ascending(S \ {first})

SuppliedSet == { supplied[k] : k \in 1..Len(supplied) }

\* What the pipeline yields on the supplied records taken in ascending order.
ExpectedOutcome ==
    LET r == compute_metrics(Ascending(SuppliedSet))
        fs == flag_unusual(r.rows)
        ds == [k \in 1..Len(r.rows) |-> r.rows[k].date]
    IN  IF r.err # "none"
        THEN Outcome(r.rows, r.err, <<>>, <<>>)
        ELSE Outcome(r.rows, "none", fs, check_disposition(ds, fs))

\* C9: whatever the order of the file, main works on the records in strictly
\* ascending date order: the outcome depends on the set of records alone, and
\* a price change is computed against the record with the next-earlier date.
C9_OrderIndependent ==
    /\ pc # "sort" =>
          /\ StrictlyAscending([k \in 1..Len(rows) |-> rows[k].date])
          /\ { Raw(rows[k]) : k \in 1..Len(rows) } = { Raw(r) : r \in SuppliedSet }
    /\ \A a \in 1..Len(runs) : runs[a] = ExpectedOutcome
    /\ AfterCompute =>
          \A k \in 2..Len(rows) :
              Enriched(rows[k]) =>
                  /\ \A r \in SuppliedSet :
                         r.date < rows[k].date => r.date <= rows[k - 1].date
                  /\ rows[k].price_change.n * rows[k - 1].close
                         = (rows[k].close - rows[k - 1].close) * 100 * rows[k].price_change.d

\* A file of three rows given latest date first, ending with a disposition date.
C9_Witness ==
    /\ pc = "done"
    /\ Len(supplied) = 3
    /\ supplied[1].date > supplied[2].date /\ supplied[2].date > supplied[3].date
    /\ disposition_days # <<>>
    /\ \E k \in 1..Len(rows) : rows[k].price_change.n # 0

\* ---- C10
Leq(f, g) == Len(f) = Len(g) /\ \A k \in 1..Len(f) : f[k] => g[k]

\* The sequences obtained from f by turning false entries true: all of them
\* for a sequence of up to MaxLen days, those made of blocks for a longer one.
Raises(f) ==
    IF Len(f) <= MaxLen
    THEN { g \in [1..Len(f) -> BOOLEAN] : Leq(f, g) }
    ELSE { g \in { Concat(bs) : bs \in [1..MaxBlocks -> Blocks] } : Leq(f, g) }

\* C10: every date emitted for a flag sequence is emitted for every sequence
\* obtained from it by turning false entries true.
C10_Monotone ==
    AfterCheck =>
        \A g \in Raises(flags) :
            LET more == check_disposition(dates, g)
            IN  \A k \in 1..Len(disposition_days) : Emitted(more, disposition_days[k])

\* A day emitted by the six-of-ten rule alone that, once more days are flagged,
\* is emitted by the three-in-a-row rule instead.
C10_Witness ==
    /\ AfterCheck
    /\ \E g \in Raises(flags) : \E i \in 0..(Len(flags) - 1) :
          /\ g # flags
          /\ ~RuleA(flags, i) /\ RuleB(flags, i) /\ RuleA(g, i)
          /\ Emitted(disposition_days, dates[i + 1])

====
